---- MODULE Spec2Model ----
(***************************************************************************)
(* A model of meetup_import.py: the text helpers (clean_name,              *)
(* get_hosts_and_speakers, clean_description,                              *)
(* get_formatted_event_description), the event builder, the record         *)
(* processing, and the merge of a batch into the JSON store.               *)
(*                                                                         *)
(* A Python str is a sequence of one-character strings.  A Python dict is  *)
(* a function from its keys; a nested dict d["image"] is flattened: the    *)
(* key "image" holds DICT and its entries live under "image.path" and      *)
(* "image.alt".  Python's None is the value NONE.                          *)
(***************************************************************************)
EXTENDS Integers, Sequences, FiniteSets, TLC

\* ------------------------------------------------------------ bounds
\* calendar entries per run
MaxEvents == 2
\* runs of fetch_events
MaxRuns == 2
\* lines of a description given to get_hosts_and_speakers
MaxLines == 3
\* pieces of a description given to get_formatted_event_description
MaxPieces == 3

\* ------------------------------------------------------------ str
Whitespace == {" ", "\t", "\n", "\r"}

RECURSIVE LStrip(_)
\* str.lstrip()
LStrip(s) ==
  IF s # <<>> /\ Head(s) \in Whitespace THEN LStrip(Tail(s)) ELSE s

RECURSIVE RStrip(_)
\* str.rstrip()
RStrip(s) ==
  IF s # <<>> /\ s[Len(s)] \in Whitespace THEN RStrip(SubSeq(s, 1, Len(s) - 1)) ELSE s

\* str.strip()
Strip(s) == RStrip(LStrip(s))

\* str.startswith(p)
StartsWith(s, p) == Len(s) >= Len(p) /\ SubSeq(s, 1, Len(p)) = p

RECURSIVE FindFrom(_, _, _)
\* the least index >= i at which p occurs in s, 0 if none
FindFrom(s, p, i) ==
  IF i + Len(p) - 1 > Len(s) THEN 0
  ELSE IF SubSeq(s, i, i + Len(p) - 1) = p THEN i
  ELSE FindFrom(s, p, i + 1)

\* p in s
Contains(s, p) == FindFrom(s, p, 1) # 0

\* s.split(sep, 1)[0]
SplitFirst(s, sep) ==
  LET k == FindFrom(s, sep, 1) IN IF k = 0 THEN s ELSE SubSeq(s, 1, k - 1)

UpperLetters ==
  <<"A","B","C","D","E","F","G","H","I","J","K","L","M",
    "N","O","P","Q","R","S","T","U","V","W","X","Y","Z">>
LowerLetters ==
  <<"a","b","c","d","e","f","g","h","i","j","k","l","m",
    "n","o","p","q","r","s","t","u","v","w","x","y","z">>
Digits == {"0","1","2","3","4","5","6","7","8","9"}
Range(f) == {f[i] : i \in DOMAIN f}

LowerChar(c) ==
  IF \E i \in 1..26 : UpperLetters[i] = c
  THEN LowerLetters[CHOOSE i \in 1..26 : UpperLetters[i] = c] ELSE c
UpperChar(c) ==
  IF \E i \in 1..26 : LowerLetters[i] = c
  THEN UpperLetters[CHOOSE i \in 1..26 : LowerLetters[i] = c] ELSE c

\* str.lower(), str.upper()
Lower(s) == [i \in 1..Len(s) |-> LowerChar(s[i])]
Upper(s) == [i \in 1..Len(s) |-> UpperChar(s[i])]

RECURSIVE Remove(_, _)
\* s with every character of the set cs deleted
Remove(s, cs) ==
  IF s = <<>> THEN <<>>
  ELSE IF Head(s) \in cs THEN Remove(Tail(s), cs)
  ELSE <<Head(s)>> \o Remove(Tail(s), cs)

RECURSIVE Join(_, _)
\* sep.join(parts)
Join(parts, sep) ==
  IF parts = <<>> THEN <<>>
  ELSE IF Len(parts) = 1 THEN parts[1]
  ELSE parts[1] \o sep \o Join(Tail(parts), sep)

RECURSIVE SplitLines(_)
\* str.splitlines(): lines end at \n, \r or \r\n; no line after a final break
SplitLines(s) ==
  IF s = <<>> THEN <<>>
  ELSE LET n == FindFrom(s, <<"\n">>, 1)
           r == FindFrom(s, <<"\r">>, 1)
           k == IF n = 0 THEN r ELSE IF r = 0 THEN n ELSE IF r < n THEN r ELSE n
           w == IF k # 0 /\ s[k] = "\r" /\ k < Len(s) /\ s[k + 1] = "\n" THEN 2 ELSE 1
       IN IF k = 0 THEN <<s>>
          ELSE <<SubSeq(s, 1, k - 1)>> \o SplitLines(SubSeq(s, k + w, Len(s)))

\* ------------------------------------------------------------ regexes
\* the characters of [*_~`]; the grave accent is written "backtick"
Emphasis == {"*", "_", "~", "backtick"}

RECURSIVE LinkSub(_)
\* re.sub(r'\[([^\]]+)\]\([^)]+\)', r'\1', s): the leftmost [label](url)
\* becomes label; the label runs to the first "]", the url to the first ")"
LinkSub(s) ==
  IF s = <<>> THEN <<>>
  ELSE LET t  == Tail(s)
           rb == FindFrom(t, <<"]">>, 1)
           u  == SubSeq(t, rb + 2, Len(t))
           rp == FindFrom(u, <<")">>, 1)
       IN IF /\ Head(s) = "["
             /\ rb >= 2
             /\ rb < Len(t)
             /\ t[rb + 1] = "("
             /\ rp >= 2
          THEN SubSeq(t, 1, rb - 1) \o LinkSub(SubSeq(u, rp + 1, Len(u)))
          ELSE <<Head(s)>> \o LinkSub(t)

RECURSIVE SkipStars(_)
\* what follows the longest run of "*" at the start of s (\**)
SkipStars(s) == IF s # <<>> /\ Head(s) = "*" THEN SkipStars(Tail(s)) ELSE s

NoMatch == [matched |-> FALSE, group |-> <<>>]

\* re.match(r'\**LABEL\**\s*(.+)', line, re.IGNORECASE), LABEL in lower case:
\* whether it matches, and the text of (.+).  (.+) needs one character: when
\* nothing follows the stars and spaces, the regex backtracks and (.+) takes
\* the last of them.
LabelMatch(line, label) ==
  LET a == SkipStars(line) IN
  IF ~StartsWith(Lower(a), label) THEN NoMatch
  ELSE LET t == SubSeq(a, Len(label) + 1, Len(a))
           r == LStrip(SkipStars(t))
       IN IF t = <<>> THEN NoMatch
          ELSE IF r # <<>> THEN [matched |-> TRUE, group |-> r]
          ELSE [matched |-> TRUE, group |-> <<t[Len(t)]>>]

\* ------------------------------------------------------------ clean_name
\* the literal text after which a name keeps only what precedes
Pipe == <<"|">>

clean_name(s) ==
  LET s1 == Remove(s, Emphasis)
      s2 == Strip(s1)
      s3 == LinkSub(s2)
  IN IF Contains(s3, Pipe) THEN Strip(SplitFirst(s3, Pipe)) ELSE s3

\* ------------------------------------------------ get_hosts_and_speakers
LabelHost    == <<"h","o","s","t",":">>
LabelCohost  == <<"c","o","-","h","o","s","t",":">>
LabelGuest   == <<"g","u","e","s","t"," ","p","r","e","s","e","n","t","e","r",":">>
LabelSpeaker == <<"s","p","e","a","k","e","r",":">>
CommaSpace   == <<","," ">>
AndWord      == <<" ","a","n","d"," ">>

\* line 79: (Guest Presenter|Speaker), the first alternative first
SpeakerMatch(line) ==
  LET g == LabelMatch(line, LabelGuest)
  IN IF g.matched THEN g ELSE LabelMatch(line, LabelSpeaker)

\* one pass of the loop body, lines 62-84, on the buckets
\* b = [hosts, cohosts, speakers]
ScanLine(b, rawline) ==
  LET line == Strip(rawline)
      h == LabelMatch(line, LabelHost)
      c == LabelMatch(line, LabelCohost)
      s == SpeakerMatch(line)
  IN IF h.matched
     THEN IF clean_name(h.group) # <<>>
          THEN [b EXCEPT !.hosts = Append(@, clean_name(h.group))] ELSE b
     ELSE IF c.matched
     THEN IF clean_name(c.group) # <<>>
          THEN [b EXCEPT !.cohosts = Append(@, clean_name(c.group))] ELSE b
     ELSE IF s.matched
     THEN IF clean_name(s.group) # <<>>
          THEN [b EXCEPT !.speakers = Append(@, clean_name(s.group))] ELSE b
     ELSE b

RECURSIVE ScanLines(_, _)
ScanLines(b, lines) ==
  IF lines = <<>> THEN b ELSE ScanLines(ScanLine(b, Head(lines)), Tail(lines))

\* a plausible slip: the co-hosts joined to the hosts by a comma
ComposeHostComma(hosts, cohosts) == Join(hosts \o cohosts, CommaSpace)

\* lines 87-94
ComposeHost(hosts, cohosts) ==
  IF hosts # <<>> /\ cohosts # <<>>
  THEN Join(hosts, CommaSpace) \o AndWord \o Join(cohosts, CommaSpace)
  ELSE IF cohosts # <<>> /\ hosts = <<>> THEN Join(cohosts, CommaSpace)
  ELSE Join(hosts, CommaSpace)

\* returns <<host, speaker>>
get_hosts_and_speakers(event_desc) ==
  LET text  == Remove(event_desc, {"\\"})
      b     == ScanLines([hosts |-> <<>>, cohosts |-> <<>>, speakers |-> <<>>],
                         SplitLines(text))
  IN <<ComposeHost(b.hosts, b.cohosts), Join(b.speakers, CommaSpace)>>

\* ------------------------------------------------------ clean_description
\* unicodedata.normalize('NFKD', c) on the characters of the model: an
\* accented letter becomes the letter and a combining mark, the trade mark
\* sign becomes TM; every other character of the model is its own NFKD
NFKDChar(c) ==
  CASE c = "e_acute" -> <<"e", "combining_acute">>
    [] c = "a_circumflex" -> <<"a", "combining_circumflex">>
    [] c = "trade_mark" -> <<"T", "M">>
    [] OTHER -> <<c>>

RECURSIVE NFKD(_)
NFKD(s) == IF s = <<>> THEN <<>> ELSE NFKDChar(Head(s)) \o NFKD(Tail(s))

\* lines 103-109
allowed_chars ==
  Range(LowerLetters) \cup Range(UpperLetters) \cup Digits \cup Whitespace
    \cup {".", ",", ";", ":", "!", "?", "'", "\"", "-", "(", ")"}
    \cup {"a_circumflex", "euro", "trade_mark"}

RECURSIVE Keep(_, _)
\* ''.join(ch for ch in s if ch in cs)
Keep(s, cs) ==
  IF s = <<>> THEN <<>>
  ELSE IF Head(s) \in cs THEN <<Head(s)>> \o Keep(Tail(s), cs)
  ELSE Keep(Tail(s), cs)

clean_description(text) ==
  Keep(NFKD(Remove(LinkSub(text), Emphasis)), allowed_chars)

\* --------------------------------------- get_formatted_event_description
\* "Women Coding Community"
prefix == <<"W","o","m","e","n"," ","C","o","d","i","n","g"," ","C","o","m","m","u","n","i","t","y">>
\* "About Women Coding Community"
AboutMarker == <<"A","b","o","u","t"," ","W","o","m","e","n"," ","C","o","d","i","n","g"," ","C","o","m","m","u","n","i","t","y">>

\* a plausible slip: the prefix test made on the truncated text
FormatTruncateFirst(event_desc) ==
  LET description == SplitFirst(Strip(clean_description(event_desc)), AboutMarker)
  IN IF StartsWith(Strip(description), prefix)
     THEN LStrip(SubSeq(Strip(description), Len(prefix) + 1, Len(Strip(description))))
     ELSE Strip(description)

get_formatted_event_description(event_desc) ==
  LET full_description == Strip(clean_description(event_desc))
      description == SplitFirst(full_description, AboutMarker)
  IN IF StartsWith(Strip(full_description), prefix)
     THEN LStrip(SubSeq(Strip(full_description), Len(prefix) + 1,
                        Len(Strip(full_description))))
     ELSE Strip(description)

\* ------------------------------------------------------------ values
\* Python's None, and the mark of a nested dict
NONE == <<"<None>">>
DICT == <<"<dict>">>

\* str(v): the text "None" for None, a str is itself
Str(v) == IF v = NONE THEN <<"N","o","n","e">> ELSE v

\* d.get(k, default)
Get(d, k, default) == IF k \in DOMAIN d THEN d[k] ELSE default

\* d[k] = v
Put(d, k, v) == [x \in DOMAIN d \cup {k} |-> IF x = k THEN v ELSE d[x]]

\* isinstance(d.get(k), dict) with k in d
IsDictAt(d, k) == k \in DOMAIN d /\ d[k] = DICT

RECURSIVE RStripNewlines(_)
\* str.rstrip("\n")
RStripNewlines(s) ==
  IF s # <<>> /\ s[Len(s)] = "\n" THEN RStripNewlines(SubSeq(s, 1, Len(s) - 1)) ELSE s

\* ---------------------------------------------------- process_meetup_data
\* "View meetup event"
ViewMeetupEvent == <<"V","i","e","w"," ","m","e","e","t","u","p"," ","e","v","e","n","t">>

process_meetup_data(meetup) ==
  LET m1 == Put(meetup, "title", Str(Get(meetup, "title", <<>>)))
      m2 == Put(m1, "description", RStripNewlines(Str(Get(m1, "description", <<>>))))
      m3 == Put(m2, "expiration", Str(Get(m2, "expiration", <<>>)))
      m4 == Put(m3, "host", Str(Get(m3, "host", <<>>)))
      m5 == Put(m4, "speaker", Str(Get(m4, "speaker", <<>>)))
      m6 == IF IsDictAt(m5, "image")
            THEN Put(Put(m5, "image.path", Str(Get(m5, "image.path", <<>>))),
                     "image.alt", Str(Get(m5, "image.alt", <<>>)))
            ELSE m5
      m7 == IF IsDictAt(m6, "link")
            THEN Put(Put(m6, "link.path", Str(Get(m6, "link.path", <<>>))),
                     "link.title", Str(Get(m6, "link.title", ViewMeetupEvent)))
            ELSE m6
  IN m7

\* ------------------------------------------------------------ the key
KeySep == <<" ","-"," ">>

\* a plausible slip: the title not stripped
KeyUnstripped(event) == event["title"] \o KeySep \o Str(Get(event, "date", NONE))

\* f"{event.get('title').strip()} - {event.get('date')}"
get_event_key(event) ==
  Strip(event["title"]) \o KeySep \o Str(Get(event, "date", NONE))

get_existing_event_keys(events) == {get_event_key(events[i]) : i \in DOMAIN events}

\* ------------------------------------------------------------ the store
\* The file data/events.json is absent, holds a JSON array (list), holds
\* text that is no JSON (malformed: also an empty or a truncated file),
\* holds bytes that are no UTF-8 (undecodable), or cannot be opened
\* (unreadable: the path names a directory).
Absent      == [kind |-> "absent", recs |-> <<>>]
Malformed   == [kind |-> "malformed", recs |-> <<>>]
Undecodable == [kind |-> "undecodable", recs |-> <<>>]
Unreadable  == [kind |-> "unreadable", recs |-> <<>>]
ListOf(recs) == [kind |-> "list", recs |-> recs]

\* the value returned or the exception raised, and whether logging.error ran
load_existing_events_from_file(file) ==
  CASE file.kind = "absent" -> [raised |-> "", value |-> <<>>, logged |-> FALSE]
    [] file.kind = "list" -> [raised |-> "", value |-> file.recs, logged |-> FALSE]
    [] file.kind = "malformed" -> [raised |-> "", value |-> <<>>, logged |-> TRUE]
    [] file.kind = "unreadable" -> [raised |-> "", value |-> <<>>, logged |-> TRUE]
    [] file.kind = "undecodable" ->
         [raised |-> "UnicodeDecodeError", value |-> <<>>, logged |-> FALSE]

\* a plausible slip: the new events not added to the loaded ones
ExistingOnly(existing, data) == existing

\* line 244: existing.extend(data)
Extended(existing, data) == existing \o data

\* ------------------------------------------------- get_event_image_url
\* what requests.get(url) meets: the request fails, or a page with an
\* og:image meta tag (with or without content), or with no such tag and an
\* img tag (with or without src), or with neither tag
PageKinds == {"request_error", "og", "og_no_content", "img", "img_no_src", "no_tags"}

\* the one image address of the model's pages
ImageUrl == <<"i",".","p","n","g">>

\* the value returned (NONE is Python's None) or the exception raised;
\* with neither tag, line 140 reads image_url, which was never assigned
get_event_image_url(page) ==
  CASE page = "request_error" -> [raised |-> "RequestException", value |-> NONE]
    [] page = "og" -> [raised |-> "", value |-> ImageUrl]
    [] page = "og_no_content" -> [raised |-> "", value |-> NONE]
    [] page = "img" -> [raised |-> "", value |-> ImageUrl]
    [] page = "img_no_src" -> [raised |-> "", value |-> NONE]
    [] page = "no_tags" -> [raised |-> "UnboundLocalError", value |-> NONE]

\* ------------------------------------------------------------ the models
\* Image.path's default, line 22
DefaultImagePath == <<"/","a","s","s","e","t","s","/","i","m","a","g","e","s","/","e","v","e","n","t","s","/","d","e","f","a","u","l","t",".","j","p","g">>
EventImageAlt == <<"W","C","C"," ","M","e","e","t","u","p"," ","e","v","e","n","t"," ","i","m","a","g","e">>
LinkTarget == <<"_","t","a","r","g","e","t">>

\* lines 168-184: <<category_style, category_name>>
Categorize(title, description) ==
  IF Contains(Lower(description), <<"c","o","d","i","n","g"," ","c","l","u","b">>) THEN <<<<"c","o","d","i","n","g","-","c","l","u","b">>, <<"C","o","d","i","n","g"," ","C","l","u","b">>>>
  ELSE IF Contains(Lower(description), <<"w","r","i","t","i","n","g"," ","c","l","u","b">>) THEN <<<<"w","r","i","t","i","n","g","-","c","l","u","b">>, <<"W","r","i","t","i","n","g"," ","C","l","u","b">>>>
  ELSE IF Contains(Lower(title), <<"b","o","o","k"," ","c","l","u","b">>) THEN <<<<"b","o","o","k","-","c","l","u","b">>, <<"B","o","o","k"," ","C","l","u","b">>>>
  ELSE IF Contains(Lower(title), <<"c","a","r","e","e","r"," ","c","l","u","b">>) THEN <<<<"c","a","r","e","e","r","-","c","l","u","b">>, <<"C","a","r","e","e","r"," ","C","l","u","b">>>>
  ELSE IF Contains(Lower(description), <<"c","a","r","e","e","r"," ","t","a","l","k">>) THEN <<<<"c","a","r","e","e","r","-","t","a","l","k">>, <<"C","a","r","e","e","r"," ","T","a","l","k">>>>
  ELSE <<<<"t","e","c","h","-","t","a","l","k">>, <<"T","e","c","h"," ","T","a","l","k">>>>

\* str.replace("\n", " ")
NewlinesToSpaces(s) == [i \in 1..Len(s) |-> IF s[i] = "\n" THEN " " ELSE s[i]]

\* lines 154-199 for one event and the image address found for it: the
\* MeetupEvents object, as the dict model_dump() gives
BuildRecord(event, image_url) ==
  LET title == event.name
      expiration == event.begin.Y \o event.begin.m \o event.begin.d
      date == Upper(event.begin.a \o <<","," ">> \o event.begin.b \o <<" ">> \o event.begin.d
                    \o <<","," ">> \o event.begin.Y)
      time == event.begin.I \o <<":">> \o event.begin.M \o <<" ">> \o event.begin.p
                \o <<" ">> \o event.begin.Z
      url == IF event.url = NONE THEN <<>> ELSE event.url
      full_description ==
        Strip(IF event.description = NONE THEN <<>> ELSE event.description)
      hs == get_hosts_and_speakers(full_description)
      description == get_formatted_event_description(full_description)
      cat == Categorize(title, description)
  IN [title |-> title,
      description |-> NewlinesToSpaces(description),
      category_style |-> cat[1],
      category_name |-> cat[2],
      date |-> date,
      time |-> time,
      expiration |-> expiration,
      host |-> hs[1],
      speaker |-> hs[2],
      image |-> DICT] @@
     ("image.path" :> image_url @@ "image.alt" :> EventImageAlt @@
      "link" :> DICT @@ "link.path" :> url @@
      "link.title" :> ViewMeetupEvent @@ "link.target" :> LinkTarget)

RECURSIVE InsertByBegin(_, _)
\* e put into the sorted list s after every entry that does not begin later
InsertByBegin(s, e) ==
  IF s = <<>> THEN <<e>>
  ELSE IF Head(s).begin.ord <= e.begin.ord THEN <<Head(s)>> \o InsertByBegin(Tail(s), e)
  ELSE <<e>> \o s

RECURSIVE SortByBegin(_)
\* sorted(calendar.events, key=lambda e: e.begin): stable
SortByBegin(events) ==
  IF events = <<>> THEN <<>>
  ELSE InsertByBegin(SortByBegin(SubSeq(events, 1, Len(events) - 1)), events[Len(events)])

\* ------------------------------------------------------------ state
VARIABLES
  store,            \* the file data/events.json
  pc,               \* where fetch_events is
  calendar,         \* the events of files/meetup.ics, in the calendar's order
  sorted_events,    \* line 149
  upcoming_meetups, \* line 151: the records built so far
  page,             \* what the last image lookup met
  existing_events,  \* line 261
  existing_keys,    \* line 262
  added_events,     \* line 263
  idx,              \* the next event of the loop of line 266
  batch,            \* the formatted events the loop has walked
  existing,         \* line 242, extended at line 244
  error,            \* the exception that ended the run, "" if none
  log,              \* what logging.error reported in this run
  store0,           \* the file as the run found it
  nwrites,          \* how often the run opened the file for writing
  runs,             \* runs started
  repeat,           \* the run repeats the calendar of a run that ended well
  arg,              \* the argument of the function under test
  ret,              \* its result
  fpc               \* "call" before the function ran, "ret" after

runvars == <<store, pc, calendar, sorted_events, upcoming_meetups, page,
             existing_events, existing_keys, added_events, idx, batch,
             existing, error, log, store0, nwrites, runs, repeat>>
fnvars == <<arg, ret, fpc>>
vars == <<runvars, fnvars>>

\* ------------------------------------------------------------ inputs
\* two instants, by their strftime fields; ord is their order in time
Monday  == [ord |-> 1, a |-> <<"M","o","n">>, b |-> <<"J","a","n">>, d |-> <<"0","1">>, Y |-> <<"2","0","2","4">>,
            m |-> <<"0","1">>, I |-> <<"0","6">>, M |-> <<"3","0">>, p |-> <<"P","M">>, Z |-> <<"U","T","C">>]
Tuesday == [ord |-> 2, a |-> <<"T","u","e">>, b |-> <<"J","a","n">>, d |-> <<"0","2">>, Y |-> <<"2","0","2","4">>,
            m |-> <<"0","1">>, I |-> <<"0","7">>, M |-> <<"0","0">>, p |-> <<"P","M">>, Z |-> <<"U","T","C">>]

\* the calendar entries of the model: EventA2 has EventA's title but for
\* a leading space, and its date; EventB and EventC are earlier than both,
\* and EventC has EventA's title on another day
EventA  == [name |-> <<"T","a","l","k">>, begin |-> Tuesday,
            description |-> <<"H","o","s","t",":"," ","A","l","\n","O","u","r"," ","c","o","d","i","n","g"," ","c","l","u","b","."," ","A","b","o","u","t"," ","W","o","m","e","n"," ","C","o","d","i","n","g"," ","C","o","m","m","u","n","i","t","y">>,
            url |-> <<"u","/","a">>]
EventA2 == [name |-> <<" ","T","a","l","k">>, begin |-> Tuesday, description |-> NONE, url |-> <<"u","/","b">>]
EventB  == [name |-> <<"B","o","o","k"," ","C","l","u","b">>, begin |-> Monday,
            description |-> <<"*","*","S","p","e","a","k","e","r",":","*","*"," ","E","d">>, url |-> <<"u","/","c">>]
EventC  == [name |-> <<"T","a","l","k">>, begin |-> Monday,
            description |-> <<"W","o","m","e","n"," ","C","o","d","i","n","g"," ","C","o","m","m","u","n","i","t","y"," ","c","a","r","e","e","r"," ","t","a","l","k","\n">>, url |-> <<"u","/","d">>]
EventPool == {EventA, EventA2, EventB, EventC}

RECURSIVE SeqsUpTo(_, _)
\* the sequences over S of length at most n
SeqsUpTo(S, n) ==
  IF n = 0 THEN {<<>>}
  ELSE LET shorter == SeqsUpTo(S, n - 1)
       IN shorter \cup {Append(q, x) : q \in {r \in shorter : Len(r) = n - 1}, x \in S}

\* a calendar lists each of its events once
Calendars ==
  {c \in SeqsUpTo(EventPool, MaxEvents) :
     \A i, j \in DOMAIN c : i # j => c[i] # c[j]}

InitRun ==
  /\ store \in {Absent, Malformed, Undecodable, Unreadable}
  /\ pc = "idle"
  /\ calendar = <<>>
  /\ sorted_events = <<>>
  /\ upcoming_meetups = <<>>
  /\ page = "none"
  /\ existing_events = <<>>
  /\ existing_keys = {}
  /\ added_events = <<>>
  /\ idx = 1
  /\ batch = <<>>
  /\ existing = <<>>
  /\ error = ""
  /\ log = {}
  /\ store0 = store
  /\ nwrites = 0
  /\ runs = 0
  /\ repeat = [same |-> FALSE, wrote |-> FALSE]

InitFn ==
  /\ arg = <<>>
  /\ ret = <<>>
  /\ fpc = "none"

Init == InitRun /\ InitFn

\* ------------------------------------------------------------ a run
\* fetch_events is called: lines 252-258 and 145-151
StartRun ==
  /\ pc \in {"idle", "done", "aborted"}
  /\ runs < MaxRuns
  /\ \E cal \in Calendars :
       /\ calendar' = cal
       /\ sorted_events' = SortByBegin(cal)
       /\ repeat' = [same |-> pc = "done" /\ cal = calendar,
                     wrote |-> pc = "done" /\ nwrites = 1]
  /\ upcoming_meetups' = <<>>
  /\ page' = "none"
  /\ existing_events' = <<>>
  /\ existing_keys' = {}
  /\ added_events' = <<>>
  /\ idx' = 1
  /\ batch' = <<>>
  /\ existing' = <<>>
  /\ error' = ""
  /\ log' = {}
  /\ store0' = store
  /\ nwrites' = 0
  /\ runs' = runs + 1
  /\ pc' = "build"
  /\ UNCHANGED <<store, fnvars>>

\* a plausible slip: the store merged and written as soon as one record is built
SomeBuilt == upcoming_meetups # <<>> \/ sorted_events = <<>>

\* the loop of line 153 has ended and line 201 returned
AllBuilt == Len(upcoming_meetups) = Len(sorted_events)

\* one pass of the loop of lines 153-200; Image(path=None) is refused by the
\* model's validation (path: str)
BuildEvent ==
  /\ pc = "build"
  /\ Len(upcoming_meetups) < Len(sorted_events)
  /\ \E pg \in PageKinds :
       LET event == sorted_events[Len(upcoming_meetups) + 1]
           img == get_event_image_url(pg)
       IN /\ page' = pg
          /\ IF img.raised # ""
             THEN /\ error' = img.raised
                  /\ pc' = "aborted"
                  /\ UNCHANGED upcoming_meetups
             ELSE IF img.value = NONE
             THEN /\ error' = "ValidationError"
                  /\ pc' = "aborted"
                  /\ UNCHANGED upcoming_meetups
             ELSE /\ upcoming_meetups' = Append(upcoming_meetups, BuildRecord(event, img.value))
                  /\ UNCHANGED <<error, pc>>
  /\ UNCHANGED <<store, calendar, sorted_events, existing_events, existing_keys,
                 added_events, idx, batch, existing, log, store0, nwrites, runs,
                 repeat, fnvars>>

\* lines 261-263
LoadExisting ==
  /\ pc = "build"
  /\ AllBuilt
  /\ LET r == load_existing_events_from_file(store)
     IN IF r.raised # ""
        THEN /\ error' = r.raised
             /\ pc' = "aborted"
             /\ UNCHANGED <<existing_events, existing_keys, log>>
        ELSE /\ existing_events' = r.value
             /\ existing_keys' = get_existing_event_keys(r.value)
             /\ log' = IF r.logged THEN log \cup {"read"} ELSE log
             /\ pc' = "merge"
             /\ UNCHANGED error
  /\ added_events' = <<>>
  /\ UNCHANGED <<store, calendar, sorted_events, upcoming_meetups, page, idx, batch,
                 existing, store0, nwrites, runs, repeat, fnvars>>

\* one pass of the loop of lines 266-276
MergeEvent ==
  /\ pc = "merge"
  /\ idx <= Len(upcoming_meetups)
  /\ LET formatted_event == process_meetup_data(upcoming_meetups[idx])
         event_key == get_event_key(formatted_event)
     IN /\ batch' = Append(batch, formatted_event)
        /\ IF event_key \notin existing_keys
           THEN /\ added_events' = Append(added_events, formatted_event)
                /\ existing_keys' = existing_keys \cup {event_key}
           ELSE UNCHANGED <<added_events, existing_keys>>
  /\ idx' = idx + 1
  /\ UNCHANGED <<store, pc, calendar, sorted_events, upcoming_meetups, page,
                 existing_events, existing, error, log, store0, nwrites, runs,
                 repeat, fnvars>>

\* lines 281-282: nothing to add
NothingToAdd ==
  /\ pc = "merge"
  /\ idx > Len(upcoming_meetups)
  /\ Len(added_events) = 0
  /\ pc' = "done"
  /\ UNCHANGED <<store, calendar, sorted_events, upcoming_meetups, page,
                 existing_events, existing_keys, added_events, idx, batch,
                 existing, error, log, store0, nwrites, runs, repeat, fnvars>>

\* lines 278-279 and 242-244: append_events_to_json_file loads the file
\* again and extends what it loaded
AppendLoad ==
  /\ pc = "merge"
  /\ idx > Len(upcoming_meetups)
  /\ Len(added_events) > 0
  /\ LET r == load_existing_events_from_file(store)
     IN IF r.raised # ""
        THEN /\ error' = r.raised
             /\ pc' = "aborted"
             /\ UNCHANGED <<existing, log>>
        ELSE /\ existing' = Extended(r.value, added_events)
             /\ log' = IF r.logged THEN log \cup {"read"} ELSE log
             /\ pc' = "open"
             /\ UNCHANGED error
  /\ UNCHANGED <<store, calendar, sorted_events, upcoming_meetups, page,
                 existing_events, existing_keys, added_events, idx, batch,
                 store0, nwrites, runs, repeat, fnvars>>

\* line 245: open(file_path, "w") fails and leaves the file alone (lines
\* 247-249 log and re-raise), or empties the file
OpenForWrite ==
  /\ pc = "open"
  /\ \E opened \in (IF store.kind = "unreadable" THEN {FALSE} ELSE BOOLEAN) :
       IF opened
       THEN /\ store' = Malformed
            /\ nwrites' = nwrites + 1
            /\ pc' = "dump"
            /\ UNCHANGED <<error, log>>
       ELSE /\ error' = "IOError"
            /\ log' = log \cup {"write"}
            /\ pc' = "aborted"
            /\ UNCHANGED <<store, nwrites>>
  /\ UNCHANGED <<calendar, sorted_events, upcoming_meetups, page, existing_events,
                 existing_keys, added_events, idx, batch, existing, store0, runs,
                 repeat, fnvars>>

\* line 246: json.dump writes the whole array, or fails on the way (the disk
\* is full) and leaves the part it wrote, which is no JSON; lines 247-249
\* log and re-raise; line 280
Dump ==
  /\ pc = "dump"
  /\ \E written \in BOOLEAN :
       IF written
       THEN /\ store' = ListOf(existing)
            /\ pc' = "done"
            /\ UNCHANGED <<error, log>>
       ELSE /\ store' = Malformed
            /\ error' = "IOError"
            /\ log' = log \cup {"write"}
            /\ pc' = "aborted"
  /\ UNCHANGED <<calendar, sorted_events, upcoming_meetups, page, existing_events,
                 existing_keys, added_events, idx, batch, existing, store0, nwrites,
                 runs, repeat, fnvars>>

Next ==
  \/ StartRun
  \/ BuildEvent
  \/ LoadExisting
  \/ MergeEvent
  \/ NothingToAdd
  \/ AppendLoad
  \/ OpenForWrite
  \/ Dump

Spec == Init /\ [][Next]_vars

\* ---------------------------------------------------- the merge claims
\* the records a file holds for a reader: those of its array, none otherwise
Records(file) == IF file.kind = "list" THEN file.recs ELSE <<>>

IsPrefix(p, s) == Len(p) <= Len(s) /\ SubSeq(s, 1, Len(p)) = p

\* the identity key as the specification words it: the title trimmed at its
\* edges, " - ", the date
IdentityKey(r) == Strip(r["title"]) \o <<" ", "-", " ">> \o r["date"]

RECURSIVE Accepted(_, _)
\* the records of the batch b the accept rule takes, walking b in order: a
\* record is taken iff its key is the key of no existing record and of no
\* record taken before it
Accepted(ex, b) ==
  IF b = <<>> THEN <<>>
  ELSE LET before == Accepted(ex, SubSeq(b, 1, Len(b) - 1))
           last == b[Len(b)]
       IN IF /\ \A i \in DOMAIN ex : IdentityKey(ex[i]) # IdentityKey(last)
             /\ \A i \in DOMAIN before : IdentityKey(before[i]) # IdentityKey(last)
          THEN Append(before, last)
          ELSE before

ImageErrors == {"RequestException", "UnboundLocalError", "ValidationError"}
WriteErrors == {"IOError"}

\* the run has loaded the existing events and is merging, writing, or has
\* ended after that
Merged ==
  \/ pc \in {"merge", "open", "dump", "done"}
  \/ pc = "aborted" /\ error \in WriteErrors

Ended == pc \in {"done", "aborted"}

\* C1: walking the batch in order, a record is accepted iff its identity key
\* is neither the key of an existing record nor the key of a record accepted
\* earlier in the batch; the accepted list is a subsequence of the batch in
\* its order, no two accepted records share a key, and the existing records
\* are as they were loaded.
C1_MergeAcceptRule ==
  Merged =>
    /\ Len(batch) = idx - 1
    /\ added_events = Accepted(Records(store0), batch)
    /\ \A i, j \in DOMAIN added_events :
         i # j => IdentityKey(added_events[i]) # IdentityKey(added_events[j])
    /\ existing_events = Records(store0)

\* a merge against a store that holds a record, of a batch of two records
\* with one key (their titles differ by a leading space): the first is
\* accepted, the second is not
C1_Witness ==
  /\ pc = "done"
  /\ existing_events # <<>>
  /\ Len(batch) = 2
  /\ batch[1] # batch[2]
  /\ IdentityKey(batch[1]) = IdentityKey(batch[2])
  /\ added_events = <<batch[1]>>

\* C2: after a run that merged its batch and ended well, a run with the same
\* batch accepts no record and leaves the store as it found it.
C2_SecondRunAcceptsNothing ==
  repeat.same => added_events = <<>> /\ nwrites = 0 /\ store = store0

\* the second run of a batch that the first run wrote has walked the batch
C2_Witness ==
  /\ repeat.same
  /\ repeat.wrote
  /\ pc = "done"
  /\ Len(batch) >= 2
  /\ \A i \in DOMAIN batch :
       \E j \in DOMAIN store.recs : store.recs[j] = batch[i]

\* C3: whatever the store held before a run stays an unchanged prefix of
\* what it holds after the run, with the records accepted in the run appended
\* in batch order: nothing persisted is dropped, rewritten or reordered.
C3_StoreAppendOnly ==
  Ended =>
    /\ IsPrefix(Records(store0), Records(store))
    /\ \/ Records(store) = Records(store0)
       \/ Records(store) = Records(store0) \o added_events

\* the same, of the runs in which no write failed: it holds
AppendOnlyWhenNoWriteFails ==
  (Ended /\ error \notin WriteErrors) => C3_StoreAppendOnly

\* C4: the write-back either leaves the full combined list (the existing
\* records, then the batch) in the file, or fails, with the error logged and
\* raised and the file as it was before the call.
C4_WriteAllOrNothing ==
  /\ (pc = "done" /\ nwrites = 1) =>
       store = ListOf(Records(store0) \o added_events)
  /\ (pc = "aborted" /\ error \in WriteErrors) =>
       store = store0 /\ "write" \in log

\* C5: reading the store never ends the run: an absent file reads as the
\* empty list, a file that is no JSON or cannot be read reads as the empty
\* list with the error logged, and the merge goes on; of the file's
\* operations only the write ends a run.
C5_ReadNeverAborts ==
  /\ pc = "aborted" => error \in ImageErrors \cup WriteErrors
  /\ (Merged /\ store0.kind # "list") =>
       /\ existing_events = <<>>
       /\ store0.kind # "absent" => "read" \in log

\* C6: when the page of an event holds neither an og:image meta tag nor an
\* img tag, or its tag has no value, the lookup does not raise and the
\* record built has the default banner path as its image path.
C6_MissingTagGivesDefault ==
  page \in {"og_no_content", "img_no_src", "no_tags"} =>
    /\ error = ""
    /\ upcoming_meetups # <<>>
    /\ upcoming_meetups[Len(upcoming_meetups)]["image.path"] = DefaultImagePath

\* C10: a run opens the store for writing at most once, and only after
\* every calendar entry is built and merged; a run that an image lookup
\* ends, or whose merge accepts nothing, leaves the store as it found it;
\* a store a run has changed and that holds an array holds the old records
\* followed by all the records accepted from the whole batch.
C10_WriteOnceAfterAllBuilt ==
  /\ nwrites <= 1
  /\ nwrites = 1 =>
       /\ Len(upcoming_meetups) = Len(sorted_events)
       /\ idx = Len(upcoming_meetups) + 1
       /\ added_events # <<>>
  /\ (pc = "aborted" /\ error \in ImageErrors) => store = store0 /\ nwrites = 0
  /\ (pc = "done" /\ added_events = <<>>) => store = store0 /\ nwrites = 0
  /\ (store.kind = "list" /\ store # store0) =>
       /\ Len(batch) = Len(sorted_events)
       /\ store.recs = Records(store0) \o Accepted(Records(store0), batch)

\* the lookup of the last entry raised after an earlier entry, new to the
\* store, was built: the run ended and the store is as it was
C10_Witness ==
  /\ pc = "aborted"
  /\ error \in ImageErrors
  /\ Len(upcoming_meetups) >= 1
  /\ Len(sorted_events) = Len(upcoming_meetups) + 1
  /\ store0.kind = "list"
  /\ \A i \in DOMAIN store0.recs :
       IdentityKey(store0.recs[i]) # IdentityKey(upcoming_meetups[1])
  /\ store = store0

\* ------------------------------------------- get_hosts_and_speakers alone
\* The lines a description is made of: the label that starts the line
\* (host, cohost, speaker, or none), the marker the label is wrapped in
\* ("" for none), and the name the line carries once cleaned.
LineCases ==
  { [text |-> <<"H","o","s","t",":"," ","A","l">>,             label |-> "host",    wrap |-> "",  name |-> <<"A","l">>],
    [text |-> <<"*","*","H","o","s","t",":","*","*"," ","*","B","o","*">>,       label |-> "host",    wrap |-> "*", name |-> <<"B","o">>],
    [text |-> <<"_","_","H","o","s","t",":","_","_"," ","A","l">>,         label |-> "host",    wrap |-> "_", name |-> <<"A","l">>],
    [text |-> <<"H","O","S","T",":"," ","A","l"," ","|"," ","l","e","a","d">>,      label |-> "host",    wrap |-> "",  name |-> <<"A","l">>],
    [text |-> <<"H","o","s","t",":"," ","*","*">>,             label |-> "host",    wrap |-> "",  name |-> <<>>],
    [text |-> <<"C","o","-","h","o","s","t",":"," ","C","y">>,          label |-> "cohost",  wrap |-> "",  name |-> <<"C","y">>],
    [text |-> <<"*","*","c","o","-","h","o","s","t",":","*","*"," ","[","D","i","]","(","u",")">>, label |-> "cohost",  wrap |-> "*", name |-> <<"D","i">>],
    [text |-> <<"C","o","-","H","o","s","t",":","\\","_","G","u","\\","_">>,     label |-> "cohost",  wrap |-> "",  name |-> <<"G","u">>],
    [text |-> <<" "," ","S","p","e","a","k","e","r",":","E","d"," "," ">>,       label |-> "speaker", wrap |-> "",  name |-> <<"E","d">>],
    [text |-> <<"G","u","e","s","t"," ","P","r","e","s","e","n","t","e","r",":"," ","F","l","o">>, label |-> "speaker", wrap |-> "",  name |-> <<"F","l","o">>],
    [text |-> <<"H","o","s","t","e","d"," ","b","y"," ","A","l">>,         label |-> "none",    wrap |-> "",  name |-> <<>>],
    [text |-> <<"S","p","e","a","k","e","r",":">>,             label |-> "none",    wrap |-> "",  name |-> <<>>],
    [text |-> <<>>,                   label |-> "none",    wrap |-> "",  name |-> <<>>] }

\* the description whose lines are ls
RenderLines(ls) == Join([i \in DOMAIN ls |-> ls[i].text], <<"\n">>)

InitNames ==
  /\ InitRun
  /\ store = Absent
  /\ arg \in SeqsUpTo(LineCases, MaxLines)
  /\ ret = <<>>
  /\ fpc = "call"

CallNames ==
  /\ fpc = "call"
  /\ ret' = get_hosts_and_speakers(RenderLines(arg))
  /\ fpc' = "ret"
  /\ UNCHANGED <<arg, runvars>>

SpecNames == InitNames /\ [][CallNames]_vars

\* the markers a label may be wrapped in: any emphasis marker of the model's
\* lines, or the asterisk alone
AnyMarker == {"", "*", "_"}
AsterisksOnly == {"", "*"}

\* the sequence a line goes to when its label may be wrapped in the markers
Bucket(line, markers) == IF line.wrap \in markers THEN line.label ELSE "none"

RECURSIVE NamesOf(_, _, _)
\* the names, in line order, of the lines of ls that go to the sequence b,
\* but for the empty names
NamesOf(ls, markers, b) ==
  IF ls = <<>> THEN <<>>
  ELSE IF Bucket(Head(ls), markers) = b /\ Head(ls).name # <<>>
  THEN <<Head(ls).name>> \o NamesOf(Tail(ls), markers, b)
  ELSE NamesOf(Tail(ls), markers, b)

RECURSIVE CommaJoined(_)
CommaJoined(names) ==
  IF names = <<>> THEN <<>>
  ELSE IF Len(names) = 1 THEN names[1]
  ELSE names[1] \o <<",", " ">> \o CommaJoined(Tail(names))

\* the result the specification gives for the lines ls
Extraction(ls, markers) ==
  LET hosts == NamesOf(ls, markers, "host")
      cohosts == NamesOf(ls, markers, "cohost")
      speakers == NamesOf(ls, markers, "speaker")
  IN << IF hosts # <<>> /\ cohosts # <<>>
        THEN CommaJoined(hosts) \o <<" ", "a", "n", "d", " ">> \o CommaJoined(cohosts)
        ELSE IF cohosts # <<>> THEN CommaJoined(cohosts)
        ELSE CommaJoined(hosts),
        CommaJoined(speakers) >>

\* C8 as stated: each line contributes to at most one of hosts, cohosts and
\* speakers, by the label that starts it, case-insensitive and optionally
\* wrapped in emphasis markers; empty names are dropped; speaker is the
\* speakers joined by ", " in line order; host is "{hosts} and {cohosts}"
\* when both exist, the cohosts when only they exist, the hosts otherwise;
\* a description with no label line gives ("", "").
C8_AnyEmphasisMarker ==
  fpc = "ret" =>
    /\ ret = Extraction(arg, AnyMarker)
    /\ (\A i \in DOMAIN arg : Bucket(arg[i], AnyMarker) = "none") => ret = <<<<>>, <<>>>>

\* C8, amended: the same, with a label optionally wrapped in asterisks; a
\* label wrapped in another emphasis marker starts no label line.
C8_NameExtraction ==
  fpc = "ret" =>
    /\ ret = Extraction(arg, AsterisksOnly)
    /\ (\A i \in DOMAIN arg : Bucket(arg[i], AsterisksOnly) = "none") => ret = <<<<>>, <<>>>>

\* a description with a host line, a co-host line and a speaker line has
\* been extracted
C8_Witness ==
  /\ fpc = "ret"
  /\ NamesOf(arg, AsterisksOnly, "host") # <<>>
  /\ NamesOf(arg, AsterisksOnly, "cohost") # <<>>
  /\ NamesOf(arg, AsterisksOnly, "speaker") # <<>>
  /\ Contains(ret[1], AndWord)

\* -------------------------------- get_formatted_event_description alone
\* the pieces a raw description is made of
Pieces ==
  { prefix, <<"A","b","o","u","t"," ">>, <<" ","t","a","l","k","."," ">>, <<"*">>, <<"[","a","]","(","b",")">>, <<"e_acute">>, <<"\n">> }

RECURSIVE Concat(_)
Concat(ps) == IF ps = <<>> THEN <<>> ELSE Head(ps) \o Concat(Tail(ps))

InitDescr ==
  /\ InitRun
  /\ store = Absent
  /\ arg \in {Concat(ps) : ps \in SeqsUpTo(Pieces, MaxPieces)}
  /\ ret = <<>>
  /\ fpc = "call"

CallDescr ==
  /\ fpc = "call"
  /\ ret' = get_formatted_event_description(arg)
  /\ fpc' = "ret"
  /\ UNCHANGED <<arg, runvars>>

SpecDescr == InitDescr /\ [][CallDescr]_vars

\* p occurs in s at index k
OccursAt(s, p, k) == k + Len(p) - 1 <= Len(s) /\ SubSeq(s, k, k + Len(p) - 1) = p

\* s up to the first occurrence of p, all of s if there is none
Before(s, p) ==
  IF \E k \in 1..Len(s) : OccursAt(s, p, k)
  THEN SubSeq(s, 1, (CHOOSE k \in 1..Len(s) :
                       /\ OccursAt(s, p, k)
                       /\ \A j \in 1..(k - 1) : ~OccursAt(s, p, j)) - 1)
  ELSE s

MISSING == <<"<missing>">>

TestKeys == {"title", "host", "date", "image", "image.path"}

\* what each key of a record under test may hold
Choices(k) ==
  IF k = "image" THEN {MISSING, NONE, DICT} ELSE {MISSING, NONE, <<"T","a","l","k">>}

\* the dicts under test: a nested key only under a nested dict
TestDicts ==
  { [k \in {x \in TestKeys : ch[x] # MISSING} |-> ch[k]] :
      ch \in {c \in [TestKeys -> {MISSING, NONE, DICT, <<"T","a","l","k">>}] :
                /\ \A k \in TestKeys : c[k] \in Choices(k)
                /\ c["image"] # DICT => c["image.path"] = MISSING} }

InitProcess ==
  /\ InitRun
  /\ store = Absent
  /\ arg \in TestDicts
  /\ ret = <<>>
  /\ fpc = "call"

CallProcess ==
  /\ fpc = "call"
  /\ ret' = process_meetup_data(arg)
  /\ fpc' = "ret"
  /\ UNCHANGED <<arg, runvars>>

SpecProcess == InitProcess /\ [][CallProcess]_vars

StringFields ==
  {"title", "description", "date", "time", "expiration", "host", "speaker",
   "category_style", "category_name", "image.path", "image.alt", "link.path",
   "link.title"}

\* every string field of d is there and is a str
AllStrings(d) == \A f \in StringFields : f \in DOMAIN d /\ d[f] \notin {NONE, DICT}

\* C7: after process_meetup_data every string field of the record is
\* present and is a str, and a field that was absent or null is the empty
\* string: not null, not left out, not a placeholder text.
C7_AlwaysString ==
  fpc = "ret" =>
    /\ AllStrings(ret)
    /\ \A f \in StringFields :
         (f \notin DOMAIN arg \/ arg[f] = NONE) => ret[f] = <<>>

\* the records the run itself processes, built by lines 186-199, are all
\* strings after process_meetup_data
BuiltRecordsAreStrings == \A i \in DOMAIN batch : AllStrings(batch[i])

====
